---- MODULE Spec2Model ----
(***************************************************************************)
(* A model of the lsusb utility: device discovery and lookup (usb.rs),     *)
(* the progress-tracked copy engine (usb.rs) and the interactive menu      *)
(* (tui.rs).                                                               *)
(*                                                                         *)
(* Option<T> is modelled as a sequence of length at most one: <<>> is None *)
(* and <<v>> is Some(v).  A path is the sequence of its components, <<>>   *)
(* being the filesystem root.                                              *)
(***************************************************************************)
EXTENDS Integers, Sequences, FiniteSets, TLC

VARIABLES
    \* ---- discovery (usb.rs: get_usb_devices, list_partitions)
    lsblk,          \* what the external lsblk invocation yields
    dpc,            \* position of the discovery caller
    usb_devices,    \* Result of the last get_usb_devices call
    device_name,    \* argument of the last list_partitions call
    lookup,         \* Result of the last list_partitions call
    \* ---- copy engine (usb.rs: copy_to_usb, copy_file_with_progress)
    fs,             \* the filesystem: existing path -> node
    fs0,            \* the filesystem as it was when copy_to_usb was called
    source,         \* copy_to_usb's source argument
    dest,           \* copy_to_usb's dest argument
    pc,             \* position inside copy_to_usb
    total_size,     \* the size pass's total (the progress bar's length)
    pb_pos,         \* the progress bar's position: the sum of the pb.inc calls
    pb_finished,    \* pb.finish_with_message was called
    walk,           \* the WalkDir iterator in use
    target,         \* dest_path (file source) or target_root (directory source)
    cur,            \* the file copy in progress inside copy_file_with_progress
    result,         \* what copy_to_usb returned
    visited,        \* the entries the copy pass's walk has yielded
    steps,          \* the number of iterations of the copy pass's loop
    \* ---- interactive menu (tui.rs: run)
    tpc,            \* position inside run()
    selection,      \* the action selected in the menu
    options,        \* the items of the device or mountpoint picker
    choice,         \* the item picked
    tsource,        \* the source path entered
    printed,        \* the message the last operation printed
    op_result,      \* what the last operation returned
    run_result      \* what run() returned

dvars == <<lsblk, dpc, usb_devices, device_name, lookup>>
cvars == <<fs, fs0, source, dest, pc, total_size, pb_pos, pb_finished, walk,
           target, cur, result, visited, steps>>

tvars == <<tpc, selection, options, choice, tsource, printed, op_result, run_result>>

vars == <<dvars, cvars, tvars>>

None == <<>>
Some(v) == <<v>>

Ok(v) == [ok |-> TRUE, val |-> v]
Err(e) == [ok |-> FALSE, err |-> e]

(***************************************************************************)
(* Bounds of the discovery inputs.                                         *)
(***************************************************************************)
MaxDevices == 2

DevNames == {"sda", "sdb", "sdc"}
PartName == [n \in DevNames |->
               CASE n = "sda" -> "sda1" [] n = "sdb" -> "sdb1" [] OTHER -> "sdc1"]
Trans == {None, Some("usb"), Some("USB"), Some("sata")}

\* struct Device, a partition (leaf) of disk n
Partition(n, t, mp) ==
    [name |-> PartName[n], size |-> "4G", device_type |-> "part", tran |-> t,
     mountpoint |-> mp, vendor |-> None, model |-> None, hotplug |-> None,
     children |-> None]

ChildrenOf(n) ==
    { None,
      Some(<<Partition(n, None, Some("/mnt/usb"))>>),
      Some(<<Partition(n, Some("sata"), None)>>) }

\* struct Device, a top-level disk
Device ==
    { [name |-> n, size |-> "8G", device_type |-> "disk", tran |-> t,
       mountpoint |-> None, vendor |-> Some("Acme"), model |-> None,
       hotplug |-> Some(t = Some("usb")), children |-> c] :
         n \in DevNames, t \in Trans, c \in UNION {ChildrenOf(m) : m \in DevNames} }

WellNamed(d) == d.children = None \/ d.children \in ChildrenOf(d.name)

\* struct LsblkOutput.blockdevices: names are unique within one enumeration
Listings ==
    { l \in UNION { [1..k -> {d \in Device : WellNamed(d)}] : k \in 0..MaxDevices } :
        \A i, j \in DOMAIN l : l[i].name = l[j].name => i = j }

\* The outcome of running lsblk: could-not-launch, non-zero exit, bad JSON, or a listing
LsblkRuns ==
    { [launched |-> FALSE, success |-> FALSE, json |-> FALSE, blockdevices |-> <<>>],
      [launched |-> TRUE, success |-> FALSE, json |-> FALSE, blockdevices |-> <<>>],
      [launched |-> TRUE, success |-> TRUE, json |-> FALSE, blockdevices |-> <<>>] }
    \cup { [launched |-> TRUE, success |-> TRUE, json |-> TRUE, blockdevices |-> l] :
             l \in Listings }

\* A mutant of IsUsb: the transport is compared without regard to case
IsUsbAnyCase(d) == d.tran \in {Some("usb"), Some("USB")}

\* usb.rs:46  |d| d.tran.as_deref() == Some("usb")
IsUsb(d) == d.tran = Some("usb")

\* usb.rs:43-47  into_iter().filter(..).collect()
RECURSIVE Filter(_)
Filter(s) ==
    IF s = <<>> THEN <<>>
    ELSE IF IsUsb(Head(s)) THEN <<Head(s)>> \o Filter(Tail(s))
         ELSE Filter(Tail(s))

\* usb.rs:26-50
get_usb_devices(run) ==
    IF ~run.launched THEN Err("Failed to execute lsblk")
    ELSE IF ~run.success THEN Err("lsblk failed")
    ELSE IF ~run.json THEN Err("Failed to parse lsblk output")
    ELSE Ok(Filter(run.blockdevices))

\* A mutant of FindIn: the lookup also descends into the partitions
RECURSIVE FindDeep(_, _)
FindDeep(devs, name) ==
    IF devs = <<>> THEN None
    ELSE IF Head(devs).name = name THEN Some(Head(devs))
    ELSE IF Head(devs).children # None
              /\ FindDeep(Head(devs).children[1], name) # None
         THEN FindDeep(Head(devs).children[1], name)
    ELSE FindDeep(Tail(devs), name)

\* usb.rs:80  devices.iter().find(|d| d.name == device_name)
RECURSIVE FindIn(_, _)
FindIn(devs, name) ==
    IF devs = <<>> THEN None
    ELSE IF Head(devs).name = name THEN Some(Head(devs))
    ELSE FindIn(Tail(devs), name)

\* usb.rs:78-99: the printed partition rows, or the error
list_partitions(run, name) ==
    LET devices == get_usb_devices(run) IN
    IF ~devices.ok THEN devices
    ELSE LET device == FindIn(devices.val, name) IN
         IF device = None THEN Err("Device not found or is not a USB device")
         ELSE Ok(device[1])

\* Names a caller may ask for: disks, partitions, and a wrong-case spelling
LookupNames == DevNames \cup {PartName[n] : n \in DevNames} \cup {"SDB"}

(***************************************************************************)
(* The filesystem.  A node is a directory, a regular file or a symbolic    *)
(* link.  A file's content is the first len bytes of the byte stream named *)
(* tag, so two files hold the same bytes iff tag and len agree (the empty  *)
(* content has tag "").                                                    *)
(***************************************************************************)
MaxDepth == 4        \* the longest path the filesystem accepts, in components

Dir == [kind |-> "dir"]
File(t, n) == [kind |-> "file", tag |-> IF n = 0 THEN "" ELSE t, len |-> n]
Link(p) == [kind |-> "link", target |-> p]

Parent(p) == SubSeq(p, 1, Len(p) - 1)
Last(p) == p[Len(p)]
IsPrefix(p, q) == Len(p) <= Len(q) /\ SubSeq(q, 1, Len(p)) = p
Prefixes(p) == { SubSeq(p, 1, k) : k \in 0..Len(p) }
Children(f, p) == { q \in DOMAIN f : Len(q) = Len(p) + 1 /\ Parent(q) = p }
ChildNames(f, p) == { Last(q) : q \in Children(f, p) }

\* following a symbolic link in the last component, as stat/open do
Resolved(f, p) == IF p \in DOMAIN f /\ f[p].kind = "link" THEN f[p].target ELSE p

\* std::path::Path::is_file, is_dir (both follow links)
is_file(f, p) == Resolved(f, p) \in DOMAIN f /\ f[Resolved(f, p)].kind = "file"
is_dir(f, p) == Resolved(f, p) \in DOMAIN f /\ f[Resolved(f, p)].kind = "dir"

\* std::fs::create_dir_all: Ok(the new filesystem), every missing component made
create_dir_all(f, p) ==
    IF Len(p) > MaxDepth THEN Err("ENAMETOOLONG")
    ELSE IF \E q \in Prefixes(p) : q \in DOMAIN f /\ ~is_dir(f, q) THEN Err("ENOTDIR")
    ELSE Ok([q \in DOMAIN f \cup Prefixes(p) |-> IF q \in DOMAIN f THEN f[q] ELSE Dir])

\* std::fs::File::create: Ok(the new filesystem), the file made or truncated
file_create(f, p) ==
    LET q == Resolved(f, p) IN
    IF Len(q) > MaxDepth THEN Err("ENAMETOOLONG")
    ELSE IF q = <<>> \/ ~is_dir(f, Parent(q)) THEN Err("ENOENT")
    ELSE IF q \in DOMAIN f /\ f[q].kind = "dir" THEN Err("EISDIR")
    ELSE Ok([r \in DOMAIN f \cup {q} |-> IF r = q THEN File("", 0) ELSE f[r]])

\* std::fs::File::open: Ok(the file the handle refers to)
file_open(f, p) ==
    IF Resolved(f, p) \in DOMAIN f THEN Ok(Resolved(f, p)) ELSE Err("ENOENT")

(***************************************************************************)
(* walkdir::WalkDir with its defaults: links are not followed, a directory *)
(* is yielded before its contents, and entries come in the order the       *)
(* directory hands them out, which is any order.  A frame is one open      *)
(* directory: it is opened when its entry is yielded and read on the next  *)
(* call, and an entry added to a directory after it was first read may or  *)
(* may not be handed out.                                                  *)
(***************************************************************************)
Frame(p) == [dir |-> p, listed |-> FALSE, snap |-> {}, seen |-> {}]
NewWalk == [started |-> FALSE, stack |-> <<>>]

RECURSIVE WalkOutcomes(_, _)
WalkOutcomes(f, st) ==
    IF st = <<>> THEN {[stack |-> <<>>, entry |-> None]}
    ELSE LET top  == st[Len(st)]
             now  == ChildNames(f, top.dir)
             snap == IF top.listed THEN top.snap ELSE now
             must == snap \ top.seen
             late == (now \ snap) \ top.seen
             rest == SubSeq(st, 1, Len(st) - 1)
             yield(n) ==
                 LET p    == Append(top.dir, n)
                     t2   == [top EXCEPT !.listed = TRUE, !.snap = snap,
                                         !.seen = @ \cup {n}]
                     base == Append(rest, t2)
                 IN [stack |-> IF f[p].kind = "dir" THEN Append(base, Frame(p))
                               ELSE base,
                     entry |-> Some(p)]
         IN { yield(n) : n \in must \cup late }
            \cup (IF must = {} THEN WalkOutcomes(f, rest) ELSE {})

\* One call of the iterator's next(): the set of [walk, entry] it may return,
\* entry = None at the end.  The root must exist; it is yielded first.
WalkNext(f, w, root) ==
    IF ~w.started
    THEN IF is_dir(f, root)
         THEN {[walk |-> [started |-> TRUE, stack |-> <<Frame(root)>>],
                entry |-> Some(root)]}
         ELSE {[walk |-> [started |-> TRUE, stack |-> <<>>], entry |-> Some(root)]}
    ELSE { [walk |-> [started |-> TRUE, stack |-> o.stack], entry |-> o.entry] :
             o \in WalkOutcomes(f, w.stack) }

\* DirEntry::metadata().is_file() and .len(): the entry itself, links not followed
EntrySize(f, e) == IF f[e].kind = "file" THEN f[e].len ELSE 0

(***************************************************************************)
(* copy_to_usb                                                             *)
(***************************************************************************)
BufSize == 8192

Min(a, b) == IF a < b THEN a ELSE b

\* A mutant of Raise: the error is recorded and the loop goes on
RaiseAndGoOn(e) == result' = Some(Err(e)) /\ pc' = pc

\* the ? operator: copy_to_usb returns the error at once
Raise(e) == result' = Some(Err(e)) /\ pc' = "failed"

\* A mutant of CopyStart: the destination directory is made before the size pass
CopyStartMakesDest ==
    /\ pc = "start"
    /\ fs' = IF create_dir_all(fs, dest).ok THEN create_dir_all(fs, dest).val ELSE fs
    /\ IF is_file(fs, source)
       THEN /\ total_size' = fs[Resolved(fs, source)].len
            /\ pc' = "resolve"
            /\ UNCHANGED walk
       ELSE /\ walk' = NewWalk
            /\ pc' = "size"
            /\ UNCHANGED total_size
    /\ UNCHANGED <<fs0, source, dest, pb_pos, pb_finished, target, cur,
                   result, visited, steps>>
    /\ UNCHANGED <<dvars, tvars>>

\* usb.rs:135-141: the call begins; a file source's size is its length
CopyStart ==
    /\ pc = "start"
    /\ IF is_file(fs, source)
       THEN /\ total_size' = fs[Resolved(fs, source)].len
            /\ pc' = "resolve"
            /\ UNCHANGED walk
       ELSE /\ walk' = NewWalk
            /\ pc' = "size"
            /\ UNCHANGED total_size
    /\ UNCHANGED <<fs, fs0, source, dest, pb_pos, pb_finished, target, cur,
                   result, visited, steps>>
    /\ UNCHANGED <<dvars, tvars>>

\* usb.rs:142-147: one iteration of the size pass's loop
SizeStep ==
    /\ pc = "size"
    /\ \/ /\ ~walk.started /\ Resolved(fs, source) \notin DOMAIN fs
          /\ Raise("Failed to read directory entry")
          /\ UNCHANGED <<walk, total_size>>
       \/ /\ walk.started => walk.stack # <<>>
          /\ Raise("Failed to read directory entry")      \* the walk reports an error
          /\ UNCHANGED <<walk, total_size>>
       \/ /\ Resolved(fs, source) \in DOMAIN fs
          /\ \E o \in WalkNext(fs, walk, source) :
               /\ walk' = o.walk
               /\ IF o.entry = None
                  THEN pc' = "resolve" /\ UNCHANGED total_size
                  ELSE pc' = pc /\ total_size' = total_size + EntrySize(fs, o.entry[1])
               /\ UNCHANGED result
    /\ UNCHANGED <<fs, fs0, source, dest, pb_pos, pb_finished, target, cur,
                   visited, steps>>
    /\ UNCHANGED <<dvars, tvars>>

\* A mutant of ResolveDest: the source's name is always appended
ResolveDestAlwaysJoin(f, src, dst) == Append(dst, Last(src))

\* usb.rs:160-164, 175-180: where a source named src goes when dest is dst
ResolveDest(f, src, dst) == IF is_dir(f, dst) THEN Append(dst, Last(src)) ELSE dst

\* usb.rs:158-182: the destination is resolved; a directory source's root is made
ResolveStep ==
    /\ pc = "resolve"
    /\ IF source = <<>>
       THEN /\ Raise("Invalid source dir name")
            /\ UNCHANGED <<fs, target, walk, cur>>
       ELSE IF is_file(fs, source)
       THEN /\ target' = Some(ResolveDest(fs, source, dest))
            /\ cur' = Some([src |-> source, dst |-> ResolveDest(fs, source, dest),
                            off |-> 0, single |-> TRUE])
            /\ pc' = "open"
            /\ UNCHANGED <<fs, walk, result>>
       ELSE LET root == ResolveDest(fs, source, dest)
                made == create_dir_all(fs, root)
            IN /\ target' = Some(root)
               /\ \/ /\ made.ok
                     /\ fs' = made.val
                     /\ walk' = NewWalk
                     /\ pc' = "walk"
                     /\ UNCHANGED result
                  \/ /\ Raise("Failed to create destination directory")
                     /\ UNCHANGED <<fs, walk>>
               /\ UNCHANGED cur
    /\ UNCHANGED <<fs0, source, dest, total_size, pb_pos, pb_finished, visited, steps>>
    /\ UNCHANGED <<dvars, tvars>>

\* A mutant of DestPath: the entry's file name is joined, not its relative path
DestPathFlat(root, src, e) == IF e = src THEN root ELSE Append(root, Last(e))

\* usb.rs:189-190: strip_prefix(source), then target_root.join(relative_path)
DestPath(root, src, e) == root \o SubSeq(e, Len(src) + 1, Len(e))

\* usb.rs:184-197, 200-201: one iteration of the copy pass's loop, or its end
WalkStep ==
    /\ pc = "walk"
    /\ \/ /\ walk.started => walk.stack # <<>>
          /\ Raise("Failed to read directory entry")      \* the walk reports an error
          /\ UNCHANGED <<fs, walk, cur, pb_finished, visited, steps>>
       \/ \E o \in WalkNext(fs, walk, source) :
            /\ walk' = o.walk
            /\ IF o.entry = None
               THEN /\ pb_finished' = TRUE
                    /\ result' = Some(Ok("done"))
                    /\ pc' = "done"
                    /\ UNCHANGED <<fs, cur, visited, steps>>
               ELSE LET e  == o.entry[1]
                        dp == DestPath(target[1], source, e)
                        made == create_dir_all(fs, dp)
                    IN /\ visited' = visited \cup {e}
                       /\ steps' = steps + 1
                       /\ UNCHANGED pb_finished
                       /\ IF fs[e].kind = "dir"
                          THEN /\ \/ /\ made.ok
                                     /\ fs' = made.val
                                     /\ UNCHANGED <<pc, result>>
                                  \/ /\ Raise("Failed to create directory")
                                     /\ UNCHANGED fs
                               /\ UNCHANGED cur
                          ELSE /\ cur' = Some([src |-> e, dst |-> dp, off |-> 0,
                                               single |-> FALSE])
                               /\ pc' = "open"
                               /\ UNCHANGED <<fs, result>>
    /\ UNCHANGED <<fs0, source, dest, total_size, pb_pos, target>>
    /\ UNCHANGED <<dvars, tvars>>

\* usb.rs:205-206: copy_file_with_progress opens the source and creates the dest
OpenStep ==
    /\ pc = "open"
    /\ LET in  == file_open(fs, cur[1].src)
           out == file_create(fs, cur[1].dst)
       IN \/ /\ Raise("Failed to open source file")
             /\ UNCHANGED <<fs, cur>>
          \/ /\ in.ok
             /\ Raise("Failed to create dest file")
             /\ UNCHANGED <<fs, cur>>
          \/ /\ in.ok /\ out.ok
             /\ fs' = out.val
             /\ cur' = Some([cur[1] EXCEPT !.src = in.val,
                                           !.dst = Resolved(fs, cur[1].dst)])
             /\ pc' = "chunk"
             /\ UNCHANGED result
    /\ UNCHANGED <<fs0, source, dest, total_size, pb_pos, pb_finished, walk,
                   target, visited, steps>>
    /\ UNCHANGED <<dvars, tvars>>

\* usb.rs:209-217, 200-201: one iteration of the chunk loop
ChunkStep ==
    /\ pc = "chunk"
    /\ LET c == cur[1]
           n == IF fs[c.src].kind = "file" THEN Min(BufSize, fs[c.src].len - c.off)
                ELSE 0
       IN \/ /\ Raise("Failed to read from file")
             /\ UNCHANGED <<fs, cur, pb_pos, pb_finished>>
          \/ /\ fs[c.src].kind = "file" /\ n = 0           \* break; Ok(())
             /\ cur' = None
             /\ IF c.single
                THEN /\ pb_finished' = TRUE
                     /\ result' = Some(Ok("done"))
                     /\ pc' = "done"
                ELSE /\ pc' = "walk"
                     /\ UNCHANGED <<pb_finished, result>>
             /\ UNCHANGED <<fs, pb_pos>>
          \/ /\ fs[c.src].kind = "file" /\ n > 0
             /\ \/ /\ Raise("Failed to write to file")
                   /\ UNCHANGED <<fs, cur, pb_pos>>
                \/ /\ fs' = [fs EXCEPT ![c.dst] =
                                File(fs[c.src].tag, fs[c.dst].len + n)]
                   /\ pb_pos' = pb_pos + n
                   /\ cur' = Some([c EXCEPT !.off = c.off + n])
                   /\ UNCHANGED <<pc, result>>
             /\ UNCHANGED pb_finished
    /\ UNCHANGED <<fs0, source, dest, total_size, walk, target, visited, steps>>
    /\ UNCHANGED <<dvars, tvars>>

(***************************************************************************)
(* The calls of copy_to_usb that are explored: a source that is missing, a *)
(* file or a directory tree, against destinations on the mounted stick, at *)
(* the source's parent, at the source itself and inside the source.        *)
(***************************************************************************)
FileLens == {0, 10, 8200}

SrcPath == <<"s">>

SrcTrees ==
    { {} }
    \cup { {<<SrcPath, File("S", n)>>} : n \in FileLens }
    \cup { {<<SrcPath, Dir>>} \cup F \cup D \cup L :
             F \in { {} } \cup { {<<<<"s", "f">>, File("F", n)>>} : n \in FileLens },
             D \in { {}, {<<<<"s", "d">>, Dir>>},
                     {<<<<"s", "d">>, Dir>>, <<<<"s", "d", "g">>, File("G", 150)>>} },
             L \in { {}, {<<<<"s", "l">>, Link(<<"x">>)>>},
                     {<<<<"s", "l">>, Link(<<"zz">>)>>},
                     {<<<<"s", "l">>, Link(<<"m">>)>>} } }

\* the stick mounted at /m: empty, or holding an earlier /m/s (a directory or a file)
MountStates ==
    { {<<<<"m">>, Dir>>},
      {<<<<"m">>, Dir>>, <<<<"m", "s">>, Dir>>, <<<<"m", "s", "old">>, File("OLD", 3)>>},
      {<<<<"m">>, Dir>>, <<<<"m", "s">>, File("OLD", 3)>>} }

Dests == { <<"m">>, <<"m", "n">>, <<"q", "n">>, <<"x">>, <<>>, <<"s">>, <<"s", "d">> }

FsOf(S) == [p \in {e[1] : e \in S} |-> (CHOOSE e \in S : e[1] = p)[2]]

BaseFs == { <<<<>>, Dir>>, <<<<"x">>, File("X", 7)>> }

TIdle ==
    /\ tpc = "off"
    /\ selection = 0
    /\ options = <<>>
    /\ choice = None
    /\ tsource = None
    /\ printed = None
    /\ op_result = None
    /\ run_result = None

CIdle ==
    /\ fs = FsOf(BaseFs)
    /\ fs0 = fs
    /\ source = <<>>
    /\ dest = <<>>
    /\ pc = "idle"
    /\ total_size = 0
    /\ pb_pos = 0
    /\ pb_finished = FALSE
    /\ walk = NewWalk
    /\ target = None
    /\ cur = None
    /\ result = None
    /\ visited = {}
    /\ steps = 0

DIdle ==
    /\ lsblk = [launched |-> FALSE, success |-> FALSE, json |-> FALSE,
                blockdevices |-> <<>>]
    /\ dpc = "off"
    /\ usb_devices = None
    /\ device_name = None
    /\ lookup = None

CInit ==
    /\ DIdle
    /\ TIdle
    /\ \E T \in SrcTrees, M \in MountStates : fs = FsOf(BaseFs \cup T \cup M)
    /\ fs0 = fs
    /\ source = SrcPath
    /\ dest \in Dests
    /\ pc = "start"
    /\ total_size = 0
    /\ pb_pos = 0
    /\ pb_finished = FALSE
    /\ walk = NewWalk
    /\ target = None
    /\ cur = None
    /\ result = None
    /\ visited = {}
    /\ steps = 0

CNext == CopyStart \/ SizeStep \/ ResolveStep \/ WalkStep \/ OpenStep \/ ChunkStep

SpecCopy == CInit /\ [][CNext]_vars

(***************************************************************************)
(* The interactive menu, tui.rs.  Every prompt (Select, Input, Confirm)    *)
(* either returns what the user entered or fails with an I/O error, which  *)
(* run() propagates with `?`.                                              *)
(***************************************************************************)
MaxTuiDevices == 1

\* the enumerations the menu meets: a failed one, or at most MaxTuiDevices disks
\* named sdb
TuiRuns ==
    { r \in LsblkRuns :
        /\ Len(r.blockdevices) <= MaxTuiDevices
        /\ \A i \in DOMAIN r.blockdevices :
              /\ r.blockdevices[i].name = "sdb"
              /\ r.blockdevices[i].tran \in {Some("usb"), Some("sata")} }

\* the outcome of an external command (sync, umount): its spawn and exit status
CmdStatus == {"spawn_failed", "nonzero", "ok"}

\* usb.rs:52-76
list_usbs(run) ==
    LET devices == get_usb_devices(run) IN
    IF devices.ok THEN Ok("listed") ELSE devices

\* usb.rs:101-114
sync_device(status) ==
    IF status = "spawn_failed" THEN Err("Failed to run sync")
    ELSE IF status = "nonzero" THEN Err("sync command failed")
    ELSE Ok("synced")

\* usb.rs:116-128
unmount_device(status) ==
    IF status = "spawn_failed" THEN Err("Failed to run umount")
    ELSE IF status = "nonzero" THEN Err("umount command failed")
    ELSE Ok("unmounted")

\* tui.rs:39, 62  devices.iter().map(|d| d.name.clone()).collect()
RECURSIVE DeviceNames(_)
DeviceNames(devs) ==
    IF devs = <<>> THEN <<>> ELSE <<Head(devs).name>> \o DeviceNames(Tail(devs))

\* tui.rs:83-87, 122-126: the mountpoints of a device's children
RECURSIVE ChildMounts(_)
ChildMounts(children) ==
    IF children = <<>> THEN <<>>
    ELSE Head(children).mountpoint \o ChildMounts(Tail(children))

\* tui.rs:80-89, 119-128
RECURSIVE Mountpoints(_)
Mountpoints(devs) ==
    IF devs = <<>> THEN <<>>
    ELSE (IF Head(devs).children = None THEN <<>>
          ELSE ChildMounts(Head(devs).children[1]))
         \o Mountpoints(Tail(devs))

\* what the user may type at the source prompt and at the subpath prompt
TuiSources == { <<"s">>, <<"nope">> }
TuiSubpaths == { <<"n">> }

\* PathBuf::from("/mnt/usb") as a path of the filesystem model
MountPath(mp) == IF mp = "/mnt/usb" THEN <<"m">> ELSE <<"unknown">>

TuiFs ==
    FsOf(BaseFs \cup { <<<<"m">>, Dir>>, <<<<"s">>, Dir>>,
                       <<<<"s", "f">>, File("F", 10)>> })

TInit ==
    /\ lsblk = [launched |-> FALSE, success |-> FALSE, json |-> FALSE,
                blockdevices |-> <<>>]
    /\ dpc = "off"
    /\ usb_devices = None
    /\ device_name = None
    /\ lookup = None
    /\ fs = TuiFs
    /\ fs0 = fs
    /\ source = <<>>
    /\ dest = <<>>
    /\ pc = "idle"
    /\ total_size = 0
    /\ pb_pos = 0
    /\ pb_finished = FALSE
    /\ walk = NewWalk
    /\ target = None
    /\ cur = None
    /\ result = None
    /\ visited = {}
    /\ steps = 0
    /\ tpc = "menu"
    /\ selection = 0
    /\ options = <<>>
    /\ choice = None
    /\ tsource = None
    /\ printed = None
    /\ op_result = None
    /\ run_result = None

\* interact()?  fails: run() returns the prompt's error
PromptFails ==
    /\ tpc' = "ended"
    /\ run_result' = Some(Err("prompt I/O error"))

\* A mutant of Report: the operation's error is propagated, as main.rs does with `?`
ReportOrReturn(r) ==
    /\ op_result' = Some(r)
    /\ IF r.ok
       THEN printed' = None /\ tpc' = "wait" /\ UNCHANGED run_result
       ELSE printed' = printed /\ tpc' = "ended" /\ run_result' = Some(r)

\* tui.rs:25-27 and alike:  if let Err(e) = op { println!("Error: {}", e) }; wait_user()
Report(r) ==
    /\ op_result' = Some(r)
    /\ printed' = IF r.ok THEN None ELSE Some(r.err)
    /\ tpc' = "wait"
    /\ UNCHANGED run_result

\* tui.rs:17-23, 166-167: the action menu
TuiMenu ==
    /\ tpc = "menu"
    /\ \/ /\ PromptFails
          /\ UNCHANGED selection
       \/ \E sel \in 0..5 :
            /\ selection' = sel
            /\ tpc' = CASE sel = 0 -> "list"
                        [] sel \in 1..3 -> "discover"
                        [] sel = 4 -> "ask_source"
                        [] OTHER -> "ended"
            /\ run_result' = IF sel = 5 THEN Some(Ok("exit")) ELSE run_result
    /\ printed' = None
    /\ op_result' = None
    /\ UNCHANGED <<options, choice, tsource>>
    /\ UNCHANGED <<dvars, cvars>>

\* tui.rs:24-29
TuiList ==
    /\ tpc = "list"
    /\ \E run \in TuiRuns :
         /\ lsblk' = run
         /\ usb_devices' = Some(get_usb_devices(run))
         /\ Report(list_usbs(run))
    /\ UNCHANGED <<selection, options, choice, tsource>>
    /\ UNCHANGED <<dpc, device_name, lookup, cvars>>

\* tui.rs:112-114
TuiAskSource ==
    /\ tpc = "ask_source"
    /\ \/ /\ PromptFails
          /\ UNCHANGED tsource
       \/ /\ \E s \in TuiSources : tsource' = Some(s)
          /\ tpc' = "discover"
          /\ UNCHANGED run_result
    /\ UNCHANGED <<selection, options, choice, printed, op_result>>
    /\ UNCHANGED <<dvars, cvars>>

\* tui.rs:32-38, 55-61, 78-95, 117-134: the enumeration before a picker
TuiDiscover ==
    /\ tpc = "discover"
    /\ \E run \in TuiRuns :
         LET devices == get_usb_devices(run)
             opts == IF ~devices.ok THEN <<>>
                     ELSE IF selection \in {1, 2} THEN DeviceNames(devices.val)
                     ELSE Mountpoints(devices.val)
         IN /\ lsblk' = run
            /\ usb_devices' = Some(devices)
            /\ options' = opts
            /\ IF ~devices.ok
               THEN Report(devices)
               ELSE IF opts = <<>>
               THEN /\ printed' = Some(CASE selection \in {1, 2} -> "No USB devices found."
                                          [] selection = 3 ->
                                               "No mounted partitions found on USB devices."
                                          [] OTHER ->
                                               "No mounted partitions found. Cannot copy.")
                    /\ tpc' = "wait"
                    /\ UNCHANGED <<op_result, run_result>>
               ELSE /\ tpc' = "pick"
                    /\ UNCHANGED <<printed, op_result, run_result>>
    /\ UNCHANGED <<selection, choice, tsource>>
    /\ UNCHANGED <<dpc, device_name, lookup, cvars>>

\* tui.rs:40-43, 63-66, 97-100, 136-139: the device or mountpoint picker
TuiPick ==
    /\ tpc = "pick"
    /\ \/ /\ PromptFails
          /\ UNCHANGED choice
       \/ /\ \E i \in DOMAIN options : choice' = Some(options[i])
          /\ tpc' = IF selection = 4 THEN "confirm" ELSE "run"
          /\ UNCHANGED run_result
    /\ UNCHANGED <<selection, options, tsource, printed, op_result>>
    /\ UNCHANGED <<dvars, cvars>>

\* tui.rs:45-47, 68-70, 102-104: the selected operation runs
TuiRun ==
    /\ tpc = "run"
    /\ \/ /\ selection = 1
          /\ \E run \in TuiRuns :
               /\ lsblk' = run
               /\ usb_devices' = Some(get_usb_devices(run))
               /\ device_name' = choice
               /\ lookup' = Some(list_partitions(run, choice[1]))
               /\ Report(list_partitions(run, choice[1]))
       \/ /\ selection = 2
          /\ \E st \in CmdStatus : Report(sync_device(st))
          /\ UNCHANGED <<lsblk, usb_devices, device_name, lookup>>
       \/ /\ selection = 3
          /\ \E st \in CmdStatus : Report(unmount_device(st))
          /\ UNCHANGED <<lsblk, usb_devices, device_name, lookup>>
    /\ UNCHANGED <<selection, options, choice, tsource>>
    /\ UNCHANGED <<dpc, cvars>>

\* tui.rs:157: copy_to_usb(&PathBuf::from(source), &final_dest) is entered
EnterCopy(final_dest) ==
    /\ tpc' = "copying"
    /\ fs0' = fs
    /\ source' = tsource[1]
    /\ dest' = final_dest
    /\ pc' = "start"
    /\ total_size' = 0
    /\ pb_pos' = 0
    /\ pb_finished' = FALSE
    /\ walk' = NewWalk
    /\ target' = None
    /\ cur' = None
    /\ result' = None
    /\ visited' = {}
    /\ steps' = 0
    /\ UNCHANGED <<fs, run_result>>

\* tui.rs:141-149: Copy to root of the mountpoint?
TuiConfirm ==
    /\ tpc = "confirm"
    /\ \/ /\ PromptFails
          /\ UNCHANGED cvars
       \/ EnterCopy(MountPath(choice[1]))
       \/ /\ tpc' = "ask_sub"
          /\ UNCHANGED <<cvars, run_result>>
    /\ UNCHANGED <<selection, options, choice, tsource, printed, op_result>>
    /\ UNCHANGED dvars

\* tui.rs:151-157: the subdirectory or file name under the mountpoint
TuiAskSub ==
    /\ tpc = "ask_sub"
    /\ \/ /\ PromptFails
          /\ UNCHANGED cvars
       \/ \E sub \in TuiSubpaths : EnterCopy(MountPath(choice[1]) \o sub)
    /\ UNCHANGED <<selection, options, choice, tsource, printed, op_result>>
    /\ UNCHANGED dvars

\* tui.rs:157-159: copy_to_usb has returned
TuiCopyReturns ==
    /\ tpc = "copying"
    /\ pc \in {"done", "failed"}
    /\ Report(result[1])
    /\ pc' = "idle"                   \* the call's locals are dropped
    /\ fs0' = fs
    /\ source' = <<>>
    /\ dest' = <<>>
    /\ total_size' = 0
    /\ pb_pos' = 0
    /\ pb_finished' = FALSE
    /\ walk' = NewWalk
    /\ target' = None
    /\ cur' = None
    /\ result' = None
    /\ visited' = {}
    /\ steps' = 0
    /\ UNCHANGED fs
    /\ UNCHANGED <<selection, options, choice, tsource>>
    /\ UNCHANGED dvars

\* tui.rs:173-176: wait_user; a failed read is ignored
TuiWait ==
    /\ tpc = "wait"
    /\ tpc' = "menu"                  \* the iteration's locals are dropped
    /\ options' = <<>>
    /\ choice' = None
    /\ tsource' = None
    /\ lsblk' = [launched |-> FALSE, success |-> FALSE, json |-> FALSE,
                 blockdevices |-> <<>>]
    /\ usb_devices' = None
    /\ device_name' = None
    /\ lookup' = None
    /\ UNCHANGED <<selection, printed, op_result, run_result>>
    /\ UNCHANGED <<dpc, cvars>>

TNext ==
    \/ TuiMenu \/ TuiList \/ TuiAskSource \/ TuiDiscover \/ TuiPick \/ TuiRun
    \/ TuiConfirm \/ TuiAskSub \/ TuiCopyReturns \/ TuiWait
    \/ CopyStart \/ SizeStep \/ ResolveStep \/ WalkStep \/ OpenStep \/ ChunkStep

SpecTui == TInit /\ [][TNext]_vars

DInit ==
    /\ CIdle
    /\ TIdle
    /\ lsblk \in LsblkRuns
    /\ dpc = "idle"
    /\ usb_devices = None
    /\ device_name = None
    /\ lookup = None

\* a caller runs get_usb_devices (list_usbs, the menu's device pickers)
Discover ==
    /\ dpc = "idle"
    /\ usb_devices' = Some(get_usb_devices(lsblk))
    /\ dpc' = "discovered"
    /\ UNCHANGED <<lsblk, device_name, lookup>>
    /\ UNCHANGED <<cvars, tvars>>

\* a caller runs list_partitions(name), which enumerates afresh
ListPartitions ==
    /\ dpc \in {"idle", "discovered"}
    /\ \E name \in LookupNames :
         /\ device_name' = Some(name)
         /\ lookup' = Some(list_partitions(lsblk, name))
    /\ usb_devices' = Some(get_usb_devices(lsblk))
    /\ dpc' = "looked_up"
    /\ UNCHANGED lsblk
    /\ UNCHANGED <<cvars, tvars>>

DNext == Discover \/ ListPartitions

SpecDiscovery == DInit /\ [][DNext]_vars

(***************************************************************************)
(* The error taxonomy of the specification (section 7), by the context     *)
(* message the code attaches to the failure.                               *)
(***************************************************************************)
ErrorKind(msg) ==
    CASE msg \in {"Failed to open source file", "Failed to read from file"}
           -> "SourceUnreadable"
      [] msg \in {"Failed to create destination directory", "Failed to create directory",
                  "Failed to create dest file", "Failed to write to file"}
           -> "DestinationUnwritable"
      [] msg = "Failed to read directory entry" -> "WalkFailed"
      [] OTHER -> "Other"

(***************************************************************************)
(* Properties of discovery and lookup, checked under SpecDiscovery.        *)
(***************************************************************************)
UsbIndexes(l) == { j \in DOMAIN l : l[j].tran = Some("usb") }

\* C1: for every parsed listing, get_usb_devices returns exactly the top-level
\* devices whose transport is the string "usb" (absent, "USB" and other values are
\* left out), in the listing's order, each device as it was listed, children
\* included whatever their transport.
C1_FilterKeepsExactlyUsb ==
    (usb_devices # None /\ lsblk.launched /\ lsblk.success /\ lsblk.json) =>
        /\ usb_devices[1].ok
        /\ LET out == usb_devices[1].val
               l   == lsblk.blockdevices
           IN \E f \in [DOMAIN out -> DOMAIN l] :
                /\ \A i, j \in DOMAIN out : i < j => f[i] < f[j]
                /\ { f[i] : i \in DOMAIN out } = UsbIndexes(l)
                /\ \A i \in DOMAIN out : out[i] = l[f[i]]

\* C1 witness: a listing of two disks, one with transport "USB" and one "usb" disk
\* whose partition has transport "sata", was filtered to the one "usb" disk.
C1_Witness ==
    /\ usb_devices # None /\ usb_devices[1].ok
    /\ Len(lsblk.blockdevices) = 2
    /\ lsblk.blockdevices[1].tran = Some("USB")
    /\ lsblk.blockdevices[2].tran = Some("usb")
    /\ lsblk.blockdevices[2].children # None
    /\ lsblk.blockdevices[2].children[1][1].tran = Some("sata")
    /\ usb_devices[1].val = <<lsblk.blockdevices[2]>>

\* C2: the lookup of list_partitions succeeds exactly for the name of a top-level
\* device with transport "usb", and then yields that device as it was listed; for
\* any other name (a non-USB disk, a partition of a USB disk, another spelling) it
\* fails with the not-found error.
C2_LookupOnlyTopLevelUsb ==
    (lookup # None /\ lsblk.launched /\ lsblk.success /\ lsblk.json) =>
        LET l    == lsblk.blockdevices
            name == device_name[1]
            hits == { j \in UsbIndexes(l) : l[j].name = name }
        IN /\ lookup[1].ok <=> hits # {}
           /\ lookup[1].ok => \E j \in hits : lookup[1].val = l[j]
           /\ ~lookup[1].ok => lookup[1].err = "Device not found or is not a USB device"

\* C2 witness: the name of a partition of a USB disk was looked up and not found.
C2_Witness ==
    /\ lookup # None /\ ~lookup[1].ok
    /\ lookup[1].err = "Device not found or is not a USB device"
    /\ \E j \in UsbIndexes(lsblk.blockdevices) :
         /\ lsblk.blockdevices[j].children # None
         /\ lsblk.blockdevices[j].children[1][1].name = device_name[1]

(***************************************************************************)
(* Properties of copy_to_usb, checked under SpecCopy.                      *)
(***************************************************************************)
\* the entries at and under path r in filesystem f
Under(f, r) == { p \in DOMAIN f : IsPrefix(r, p) }
Rel(r, p) == SubSeq(p, Len(r) + 1, Len(p))
RelFiles(f, r) == { Rel(r, p) : p \in { q \in Under(f, r) : f[q].kind = "file" } }
RelDirs(f, r) == { Rel(r, p) : p \in { q \in Under(f, r) : f[q].kind = "dir" } }

\* C3: whenever copy_to_usb completes successfully the progress position (the sum
\* of the increments) equals the size pass's total, and during the copy it never
\* exceeds that total.
C3_ProgressReachesTotal ==
    /\ pc = "done" => pb_pos = total_size
    /\ pc \in {"walk", "open", "chunk", "done", "failed"} => pb_pos <= total_size

\* C4: copy_to_usb leaves the source untouched: every entry at or under the source
\* path is, at every moment of the call, exactly what it was when the call began,
\* and no entry is added there.
C4_SourceUntouched ==
    pc # "idle" =>
        /\ Under(fs, source) = Under(fs0, source)
        /\ \A p \in Under(fs0, source) : fs[p] = fs0[p]

\* C5: destination resolution.  A file source with an existing-directory dest is
\* written to dest/<base name>, with any other dest to dest itself; a directory
\* source with an existing-directory dest has dest/<base name> as its copy root,
\* and with a dest that does not exist has dest itself, which is created.  Nothing
\* is created outside the path so resolved (and the directories leading to it).
C5_DestinationResolution ==
    (pc # "idle" /\ target # None) =>
        LET t == target[1] IN
        /\ (is_file(fs0, source) /\ is_dir(fs0, dest)) => t = Append(dest, Last(source))
        /\ (is_file(fs0, source) /\ ~is_dir(fs0, dest)) => t = dest
        /\ (is_dir(fs0, source) /\ is_dir(fs0, dest)) => t = Append(dest, Last(source))
        /\ (is_dir(fs0, source) /\ dest \notin DOMAIN fs0) =>
              /\ t = dest
              /\ pc \in {"walk", "open", "chunk", "done"} =>
                    (dest \in DOMAIN fs /\ fs[dest].kind = "dir")
        /\ (is_file(fs0, source) /\ pc = "chunk") =>
              (cur[1].dst = t /\ fs[t].kind = "file")
        /\ (is_dir(fs0, source) /\ pc \in {"walk", "open", "chunk", "done"}) =>
              (t \in DOMAIN fs /\ fs[t].kind = "dir")
        /\ \A p \in DOMAIN fs \ DOMAIN fs0 : IsPrefix(t, p) \/ IsPrefix(p, t)

\* C5 witness: a directory tree was copied to a destination that did not exist; the
\* destination path itself was created and holds the tree's file.
C5_Witness ==
    /\ pc = "done"
    /\ is_dir(fs0, source)
    /\ dest = <<"m", "n">>
    /\ target = Some(dest)
    /\ <<"m", "n", "f">> \in DOMAIN fs
    /\ fs[<<"m", "n", "f">>].len = 8200

\* C6 as the specification states it: after every successful directory transfer the
\* relative paths of the regular files under the destination root are exactly those
\* under the source root, each destination file holds its source file's bytes, and
\* every source directory exists at the same relative path under the destination
\* root.
C6_DestinationEqualsSource ==
    (pc = "done" /\ is_dir(fs0, source)) =>
        LET root == target[1] IN
        /\ RelFiles(fs, root) = RelFiles(fs, source)
        /\ \A r \in RelFiles(fs, source) : fs[root \o r] = fs[source \o r]
        /\ \A r \in RelDirs(fs, source) :
              (root \o r) \in DOMAIN fs /\ fs[root \o r].kind = "dir"

\* C6, amended: after every successful directory transfer every regular file under
\* the source root is a regular file at the same relative path under the destination
\* root and holds the same bytes, and every source directory exists there; the
\* destination root may hold further regular files (those it held before, and one
\* for each symbolic link of the source that leads to a file).
C6_DestinationContainsSource ==
    (pc = "done" /\ is_dir(fs0, source)) =>
        LET root == target[1] IN
        /\ RelFiles(fs, source) \subseteq RelFiles(fs, root)
        /\ \A r \in RelFiles(fs, source) : fs[root \o r] = fs[source \o r]
        /\ \A r \in RelDirs(fs, source) :
              (root \o r) \in DOMAIN fs /\ fs[root \o r].kind = "dir"
        /\ \A r \in RelFiles(fs, root) \ RelFiles(fs, source) :
              \/ (root \o r) \in DOMAIN fs0 /\ fs[root \o r] = fs0[root \o r]
              \/ /\ (source \o r) \in DOMAIN fs /\ fs[source \o r].kind = "link"
                 /\ fs[root \o r] = fs[fs[source \o r].target]

\* C6 witness: a tree with a file, a subdirectory and a file in it was copied into a
\* destination root that already held another file.
C6_Witness ==
    /\ pc = "done"
    /\ target = Some(<<"m", "s">>)
    /\ <<"m", "s", "old">> \in DOMAIN fs
    /\ <<"s", "d", "g">> \in DOMAIN fs0
    /\ <<"s", "f">> \in DOMAIN fs0 /\ fs0[<<"s", "f">>].len = 8200
    /\ fs[<<"m", "s", "d", "g">>] = fs0[<<"s", "d", "g">>]

\* C7 as the specification states it: a copy from a source path that does not exist
\* fails with SourceUnreadable, nothing having been created.
C7_MissingSourceIsSourceUnreadable ==
    (pc = "failed" /\ source \notin DOMAIN fs0) =>
        /\ ErrorKind(result[1].err) = "SourceUnreadable"
        /\ fs = fs0

\* C7, amended: a copy from a source path that does not exist never gets past the
\* size pass; it fails there with the walk's error ("Failed to read directory
\* entry", WalkFailed), and nothing has been created or changed.
C7_MissingSourceFailsInWalk ==
    (pc # "idle" /\ source \notin DOMAIN fs0) =>
        /\ pc \in {"start", "size", "failed"}
        /\ fs = fs0
        /\ pc = "failed" =>
              /\ result = Some(Err("Failed to read directory entry"))
              /\ ErrorKind(result[1].err) = "WalkFailed"
        /\ result # None => pc = "failed"

\* C7 witness: the call on a missing source has failed.
C7_Witness ==
    /\ pc = "failed"
    /\ source \notin DOMAIN fs0
    /\ dest = <<"m", "n">>

\* C9: the first failure ends the transfer with that error.  From the failing step
\* on nothing is created, written or removed, the result stays that error, and the
\* copy is never reported as complete.
C9_FailureEndsTransfer ==
    [][ (result' # None /\ ~result'[1].ok) =>
            /\ fs' = fs
            /\ pb_finished' = FALSE
            /\ pc' = "failed"
            /\ (result # None => result' = result) ]_vars

\* C9 witness: a transfer failed after it had written to the destination and with
\* directories of the walk still open, so entries were left uncopied.
C9_Witness ==
    /\ pc = "failed"
    /\ fs # fs0
    /\ <<"m", "s", "f">> \in DOMAIN fs
    /\ \E i \in DOMAIN walk.stack :
         walk.stack[i].listed /\ walk.stack[i].snap # walk.stack[i].seen

\* C10: the copy pass ends after visiting each entry of the source tree, as it was
\* when the call began, at most once: it visits nothing else and nothing twice.
C10_VisitsEachSourceEntryOnce ==
    pc # "idle" =>
        /\ visited \subseteq Under(fs0, source)
        /\ steps = Cardinality(visited)

(***************************************************************************)
(* Properties of the interactive menu, checked under SpecTui.              *)
(***************************************************************************)
\* C8 as the specification states it: the session ends only when the user selects
\* Exit.
C8_EndsOnlyOnExit ==
    tpc = "ended" => (selection = 5 /\ run_result = Some(Ok("exit")))

\* C8, amended: when the selected action, or the enumeration before it, fails, the
\* error is printed and after wait_user the menu is presented again; run() returns
\* only when the user selects Exit or when a prompt itself fails, never with an
\* operation's error.
C8_OperationFailureKeepsSession ==
    /\ [](tpc = "ended" =>
            \/ selection = 5 /\ run_result = Some(Ok("exit"))
            \/ run_result = Some(Err("prompt I/O error")))
    /\ []((op_result # None /\ ~op_result[1].ok) =>
            /\ tpc \in {"wait", "menu"}
            /\ printed = Some(op_result[1].err)
            /\ run_result = None)
    /\ [][tpc = "wait" => tpc' = "menu"]_vars

\* C8 witness: a copy failed, its error was printed, and the menu is shown again.
C8_Witness ==
    /\ tpc = "menu"
    /\ selection = 4
    /\ op_result = Some(Err("Failed to read directory entry"))
    /\ printed = Some("Failed to read directory entry")

====
